---- MODULE Spec2Model ----
(***************************************************************************)
(* Model of scilpy/tractanalysis/features.py:                              *)
(*   remove_loops_and_sharp_turns, get_streamlines_bounding_box, prune,    *)
(*   outliers_removal_using_hierarchical_quickbundles, remove_outliers.    *)
(*                                                                         *)
(* Numbers.  Floats are modelled by exact rationals <<num, den>> with      *)
(* den > 0; a rational with den = 0 is NaN (the result of 0.0 / 0), and    *)
(* every comparison with it is FALSE, as in IEEE arithmetic.  np.inf is    *)
(* the integer Inf, larger than every coordinate.                          *)
(*                                                                         *)
(* Streamlines of the scorer.  A streamline is a sequence of 3D points.    *)
(* The bundles used are made of straight segments <<x,0,0>> -- <<x,h,h>>,  *)
(* all parallel, which differ only by their offset x.  For such segments   *)
(* the MDF distance between two of them (and between one of them and a     *)
(* centroid, which is the mean of a cluster's members) is the absolute     *)
(* difference of the offsets, so QuickBundles is computed exactly.         *)
(*                                                                         *)
(* Random numbers.  np.random.RandomState is a deterministic generator:    *)
(* its state is a function of the seed and of the draws made so far.  The  *)
(* Mersenne Twister is replaced by a small linear congruential generator;  *)
(* rng.shuffle is numpy's Fisher-Yates loop over its draws.                *)
(***************************************************************************)
EXTENDS Integers, Sequences, FiniteSets

VARIABLES
    \* ---- outliers_removal_using_hierarchical_quickbundles / remove_outliers
    entry,              \* "score": the scorer is called; "remove_outliers"
    streamlines,        \* the bundle: [0..N-1 -> sequence of 3D points]
    min_threshold,      \* rational
    nb_samplings_max,
    sampling_seed,
    threshold,          \* remove_outliers' threshold, a rational
    pc,                 \* position in the code
    call,               \* 1: first invocation, 2: the same invocation again
    rng,                \* state of the RandomState
    box_min, box_max,   \* what get_streamlines_bounding_box returned
    initial_threshold,  \* rational, or <<Inf, 1>>
    thresholds,         \* sequence of rationals
    ordering,           \* sequence of streamline indices
    nb_clusterings,
    path_lengths_per_streamline,
    streamlines_path,   \* [0..N-1 -> [0..L-1 -> [0..M-1 -> Int]]]
    i, j,               \* loop indices (trial, level)
    cluster_orderings,  \* sequence of orderings
    summary,            \* [0..N-1 -> rational]
    error,              \* "" or the exception raised
    first,              \* what the first invocation ended with
    outliers, inliers,  \* prune's two index sequences
    \* ---- remove_loops_and_sharp_turns
    lf_streamlines,     \* sequence of streamlines (records)
    max_angle, use_qb, qb_threshold, qb_seed,
    lf_pc,
    lf_run,             \* 1: first run, 2: the run on the first run's clean list
    streamlines_clean, loops,
    lf_first            \* the first run's input and output

scorerVars == <<entry, streamlines, min_threshold, nb_samplings_max,
                sampling_seed, threshold, pc, call, rng, box_min, box_max,
                initial_threshold, thresholds, ordering, nb_clusterings,
                path_lengths_per_streamline, streamlines_path, i, j,
                cluster_orderings, summary, error, first, outliers, inliers>>

loopVars == <<lf_streamlines, max_angle, use_qb, qb_threshold, qb_seed,
              lf_pc, lf_run, streamlines_clean, loops, lf_first>>

vars == <<scorerVars, loopVars>>

----------------------------------------------------------------------------
\* Bounds of the model.

\* nb_samplings_max ranges over 1..MaxTrials.
MaxTrials == 4
\* sampling_seed ranges over 0..MaxSeed.
MaxSeed == 2
\* Longest bundle given to remove_loops_and_sharp_turns.
MaxLoopBundle == 3

----------------------------------------------------------------------------
\* Program constants.

\* np.inf
Inf == 1000000
\* A cluster with more than this many members is clustered again.
ClusterSizeLimit == 10
\* Default of nb_samplings_max.
DefaultSamplings == 30
\* Default of sampling_seed.
DefaultSeed == 1234

----------------------------------------------------------------------------
\* Arithmetic.

Abs(x) == IF x < 0 THEN -x ELSE x
Min2(a, b) == IF a <= b THEN a ELSE b
Max2(a, b) == IF a >= b THEN a ELSE b
SetMin(S) == CHOOSE x \in S : \A y \in S : x <= y
SetMax(S) == CHOOSE x \in S : \A y \in S : x >= y

RECURSIVE Pow(_, _)
Pow(b, e) == IF e = 0 THEN 1 ELSE b * Pow(b, e - 1)

RECURSIVE SumSeq(_)
SumSeq(s) == IF s = <<>> THEN 0 ELSE Head(s) + SumSeq(Tail(s))

\* Comparisons of floats; each is FALSE when an operand is NaN (den = 0).
IsNaN(a) == a[2] = 0
RatLt(a, b) == ~IsNaN(a) /\ ~IsNaN(b) /\ a[1] * b[2] < b[1] * a[2]
RatGeq(a, b) == ~IsNaN(a) /\ ~IsNaN(b) /\ a[1] * b[2] >= b[1] * a[2]
RatLeq(a, b) == RatGeq(b, a)
RatEq(a, b) == RatGeq(a, b) /\ RatGeq(b, a)

\* len(streamlines)
NbStreamlines == Cardinality(DOMAIN streamlines)

----------------------------------------------------------------------------
\* Bundles given to the scorer.

\* [v, v, ..., v], n times.
Repeat(v, n) == [k \in 1..n |-> v]

\* The straight segment from <<x, 0, 0>> to <<x, h, h>>.
Segment(x, h) == << <<x, 0, 0>>, <<x, h, h>> >>

\* The bundle of the segments at the given offsets, indexed from 0.
MkBundle(offsets, h) ==
    [k \in 0..(Len(offsets) - 1) |-> Segment(offsets[k + 1], h)]

ScorerBundles ==
    { MkBundle(<<>>, 0),                                  \* no streamline
      MkBundle(<<0, 4, 9>>, 0),                           \* point-like streamlines
      MkBundle(<<0, 4>>, 2),
      MkBundle(Repeat(0, 10) \o <<20>>, 2),               \* a cluster of 10
      MkBundle(Repeat(0, 11) \o <<20>>, 2),               \* a cluster of 11
      MkBundle(Repeat(0, 11) \o Repeat(20, 11), 2),       \* two clusters of 11
      MkBundle(Repeat(0, 10) \o <<3, 5, 20>>, 8) }        \* order-sensitive

----------------------------------------------------------------------------
\* get_streamlines_bounding_box

\* np.min(s, axis=0), np.max(s, axis=0)
PointsMin(s) == [c \in 1..3 |-> SetMin({s[p][c] : p \in 1..Len(s)})]
PointsMax(s) == [c \in 1..3 |-> SetMax({s[p][c] : p \in 1..Len(s)})]

RECURSIVE BoxFold(_, _, _, _)
BoxFold(sl, k, bmin, bmax) ==
    IF k \notin DOMAIN sl THEN <<bmin, bmax>>
    ELSE BoxFold(sl, k + 1,
                 [c \in 1..3 |-> Min2(bmin[c], PointsMin(sl[k])[c])],
                 [c \in 1..3 |-> Max2(bmax[c], PointsMax(sl[k])[c])])

get_streamlines_bounding_box(sl) ==
    BoxFold(sl, 0, <<Inf, Inf, Inf>>, <<-Inf, -Inf, -Inf>>)

\* np.min(np.abs(box_max - box_min)) / 2.
\* -inf - inf is -inf, whose absolute value is inf.
AxisExtent(bmin, bmax, c) ==
    IF bmin[c] = Inf \/ bmax[c] = -Inf THEN Inf ELSE Abs(bmax[c] - bmin[c])

InitialThreshold(bmin, bmax) ==
    LET ext == SetMin({AxisExtent(bmin, bmax, c) : c \in 1..3})
    IN  IF ext = Inf THEN <<Inf, 1>> ELSE <<ext, 2>>

\* list(takewhile(lambda t: t >= min_threshold,
\*                (initial_threshold / 1.2**i for i in count())))
\* for a finite initial threshold and a positive min_threshold.
RECURSIVE TakeWhile(_, _, _)
TakeWhile(init, floor, k) ==
    LET t == <<init[1] * Pow(5, k), init[2] * Pow(6, k)>>
    IN  IF RatGeq(t, floor) THEN <<t>> \o TakeWhile(init, floor, k + 1)
        ELSE <<>>

----------------------------------------------------------------------------
\* np.random.RandomState

RandomState(seed) == seed % 65537

\* One draw: the next state of the generator.
rk_next(state) == (state * 75 + 74) % 65537

\* swap x[a] and x[b], positions counted from 0
Swap(x, a, b) ==
    [p \in 1..Len(x) |-> IF p = a + 1 THEN x[b + 1]
                         ELSE IF p = b + 1 THEN x[a + 1] ELSE x[p]]

\* rng.shuffle(x): for k in reversed(range(1, n)): swap x[k], x[draw in 0..k].
\* Returns <<x shuffled, the generator's state>>.
RECURSIVE ShuffleFrom(_, _, _)
ShuffleFrom(x, state, k) ==
    IF k < 1 THEN <<x, state>>
    ELSE LET s2 == rk_next(state)
         IN  ShuffleFrom(Swap(x, k, s2 % (k + 1)), s2, k - 1)

shuffle(x, state) == ShuffleFrom(x, state, Len(x) - 1)

----------------------------------------------------------------------------
\* QuickBundles(metric, threshold).cluster(streamlines, ordering)
\* A cluster is [indices |-> sequence of streamline indices, in the order
\* they were added, sum |-> the sum of its members' offsets]; its centroid is
\* at offset sum / len(indices).

Offset(s) == streamlines[s][1][1]

\* MDF distance of streamline s to the centroid of cluster c.
Dist(c, s) == <<Abs(c.sum - Len(c.indices) * Offset(s)), Len(c.indices)>>

\* The nearest cluster (the first one among equally near ones), 0 if none.
Nearest(clusters, s) ==
    IF clusters = <<>> THEN 0
    ELSE CHOOSE k \in 1..Len(clusters) :
            \A l \in 1..Len(clusters) :
                \/ RatLt(Dist(clusters[k], s), Dist(clusters[l], s))
                \/ RatEq(Dist(clusters[k], s), Dist(clusters[l], s)) /\ k <= l

\* The streamline joins its nearest cluster unless that one is farther than
\* the threshold, in which case it starts a cluster.
Assign(clusters, s, thr) ==
    LET k == Nearest(clusters, s)
    IN  IF k = 0 \/ RatLt(thr, Dist(clusters[k], s))
        THEN Append(clusters, [indices |-> <<s>>, sum |-> Offset(s)])
        ELSE [clusters EXCEPT ![k] =
                 [indices |-> Append(@.indices, s), sum |-> @.sum + Offset(s)]]

RECURSIVE ClusterFrom(_, _, _)
ClusterFrom(clusters, order, thr) ==
    IF order = <<>> THEN clusters
    ELSE ClusterFrom(Assign(clusters, Head(order), thr), Tail(order), thr)

QuickBundles(thr, order) == ClusterFrom(<<>>, order, thr)

----------------------------------------------------------------------------
\* outliers_removal_using_hierarchical_quickbundles

\* np.arange(n), as a sequence of indices
arange(n) == [k \in 1..n |-> k - 1]

\* np.ones((N, L, M), dtype=int) * -1
EmptyPath(n, l, m) ==
    [s \in 0..(n - 1) |-> [lev \in 0..(l - 1) |-> [t \in 0..(m - 1) |-> -1]]]

\* The int 0 that path_lengths_per_streamline starts as.
Scalar0 == [ndim |-> 0, data |-> <<>>]

\* Mutant of SeedRng: one generator, seeded by the first call and shared by
\* the calls that follow.
SeedRngOnce == IF call = 1 THEN RandomState(sampling_seed) ELSE rng

\* rng = np.random.RandomState(sampling_seed), made in the call.
SeedRng == RandomState(sampling_seed)

\* Mutant of Subdivided: len(cluster) >= 10
SubdividedFromLimit(cluster) == Len(cluster.indices) >= ClusterSizeLimit

\* len(cluster) > 10
Subdivided(cluster) == Len(cluster.indices) > ClusterSizeLimit

\* Lines 182-186, for the clusters of one clustering.
\* acc = [path, id, next]: streamlines_path, id_cluster, next_cluster_orderings.
RECURSIVE RecordClusters(_, _, _, _)
RecordClusters(clusters, acc, lev, trial) ==
    IF clusters = <<>> THEN acc
    ELSE LET c == Head(clusters)
             members == {c.indices[p] : p \in 1..Len(c.indices)}
         IN  RecordClusters(Tail(clusters),
                 [path |-> [s \in DOMAIN acc.path |->
                              IF s \in members
                              THEN [acc.path[s] EXCEPT ![lev][trial] = acc.id]
                              ELSE acc.path[s]],
                  id   |-> acc.id + 1,
                  next |-> IF Subdivided(c) THEN Append(acc.next, c.indices)
                           ELSE acc.next],
                 lev, trial)

\* Lines 178-186: every ordering of the level is clustered.
RECURSIVE ProcessOrderings(_, _, _, _, _)
ProcessOrderings(orderings, acc, thr, lev, trial) ==
    IF orderings = <<>> THEN acc
    ELSE ProcessOrderings(Tail(orderings),
             RecordClusters(QuickBundles(thr, Head(orderings)), acc, lev, trial),
             thr, lev, trial)

\* np.sum((streamlines_path != -1), axis=1)[:, :upto]
PathLengths(path, upto) ==
    [ndim |-> 2,
     data |-> [s \in DOMAIN path |-> [t \in 0..(upto - 1) |->
                 Cardinality({lev \in DOMAIN path[s] : path[s][lev][t] # -1})]]]

\* Mutant of MeanOverMax: np.mean(pl, axis=1) / np.max(np.mean(pl, axis=1))
MeanOverMaxOfMeans(pl) ==
    LET trials == DOMAIN pl[CHOOSE s \in DOMAIN pl : TRUE]
        T  == Cardinality(trials)
        total(s) == SumSeq([k \in 1..T |-> pl[s][k - 1]])
    IN  [s \in DOMAIN pl |-> <<total(s), SetMax({total(s2) : s2 \in DOMAIN pl})>>]

\* np.mean(pl, axis=1) / np.max(pl), for a 2-dimensional pl with columns 0..T-1.
MeanOverMax(pl) ==
    LET trials == DOMAIN pl[CHOOSE s \in DOMAIN pl : TRUE]
        T  == Cardinality(trials)
        mx == SetMax({pl[s][t] : s \in DOMAIN pl, t \in trials})
    IN  [s \in DOMAIN pl |->
            <<SumSeq([k \in 1..T |-> pl[s][k - 1]]), T * mx>>]

----------------------------------------------------------------------------
\* prune

\* indices[features < threshold], indices[features >= threshold]
prune(sl, thr, features) ==
    LET indices == arange(Cardinality(DOMAIN sl))
        below(s) == RatLt(features[s], thr)
        above(s) == RatGeq(features[s], thr)
    IN  <<SelectSeq(indices, below), SelectSeq(indices, above)>>

----------------------------------------------------------------------------
\* The scorer and remove_outliers as a state machine.

\* min_threshold's default, 0.5, and a larger floor.
MinThresholds == { <<1, 2>>, <<5, 2>> }

\* Thresholds given to remove_outliers.
PruneThresholds == { <<0, 1>>, <<1, 2>>, <<101, 100>> }

\* The schedule of the bundle has at most 5 levels (initial threshold at most
\* 2.4 times the floor), which keeps 5^k and 6^k small.
ShortSchedule(b, floor) ==
    LET box  == get_streamlines_bounding_box(b)
        init == InitialThreshold(box[1], box[2])
    IN  init[1] = Inf \/ init[1] * floor[2] * 5 <= 12 * init[2] * floor[1]

NoResult == [pc |-> "none", error |-> "", summary |-> <<>>, path |-> <<>>]

\* The locals of a call before its first statement.
FreshLocals ==
    /\ rng = 0
    /\ box_min = <<0, 0, 0>>
    /\ box_max = <<0, 0, 0>>
    /\ initial_threshold = <<0, 1>>
    /\ thresholds = <<>>
    /\ ordering = <<>>
    /\ nb_clusterings = 0
    /\ path_lengths_per_streamline = Scalar0
    /\ streamlines_path = <<>>
    /\ i = 0
    /\ j = 0
    /\ cluster_orderings = <<>>
    /\ summary = <<>>
    /\ error = ""
    /\ outliers = <<>>
    /\ inliers = <<>>

LoopsIdle ==
    /\ lf_streamlines = <<>>
    /\ max_angle = 0
    /\ use_qb = FALSE
    /\ qb_threshold = 0
    /\ qb_seed = 0
    /\ lf_pc = "idle"
    /\ lf_run = 0
    /\ streamlines_clean = <<>>
    /\ loops = <<>>
    /\ lf_first = <<>>

InitScorer ==
    /\ entry \in {"score", "remove_outliers"}
    /\ streamlines \in ScorerBundles
    /\ IF entry = "score"
       THEN /\ min_threshold \in MinThresholds
            /\ nb_samplings_max \in 1..MaxTrials
            /\ sampling_seed \in 0..MaxSeed
            /\ threshold = <<0, 1>>
       ELSE /\ min_threshold = <<1, 2>>
            /\ nb_samplings_max = DefaultSamplings
            /\ sampling_seed = DefaultSeed
            /\ threshold \in PruneThresholds
    /\ ShortSchedule(streamlines, min_threshold)
    /\ pc = "start"
    /\ call = 1
    /\ first = NoResult
    /\ FreshLocals
    /\ LoopsIdle

\* Lines 147-151.
Validate ==
    /\ pc = "start"
    /\ IF nb_samplings_max < 2
       THEN /\ error' = "ValueError"
            /\ pc' = "raised"
            /\ rng' = rng
       ELSE /\ rng' = SeedRng
            /\ pc' = "bbox"
            /\ error' = error
    /\ UNCHANGED <<entry, streamlines, min_threshold, nb_samplings_max,
                   sampling_seed, threshold, call, box_min, box_max,
                   initial_threshold, thresholds, ordering, nb_clusterings,
                   path_lengths_per_streamline, streamlines_path, i, j,
                   cluster_orderings, summary, first, outliers, inliers>>
    /\ UNCHANGED loopVars

\* Line 153.
BoundingBox ==
    /\ pc = "bbox"
    /\ LET box == get_streamlines_bounding_box(streamlines)
       IN  /\ box_min' = box[1]
           /\ box_max' = box[2]
    /\ pc' = "schedule"
    /\ UNCHANGED <<entry, streamlines, min_threshold, nb_samplings_max,
                   sampling_seed, threshold, call, rng,
                   initial_threshold, thresholds, ordering, nb_clusterings,
                   path_lengths_per_streamline, streamlines_path, i, j,
                   cluster_orderings, summary, error, first, outliers, inliers>>
    /\ UNCHANGED loopVars

\* Lines 156-167.  With an infinite initial threshold every value of the
\* generator passes the test, until 1.2**i overflows.
Schedule ==
    /\ pc = "schedule"
    /\ LET init == InitialThreshold(box_min, box_max)
       IN  /\ initial_threshold' = init
           /\ IF init[1] = Inf
              THEN /\ error' = "OverflowError"
                   /\ pc' = "raised"
                   /\ UNCHANGED <<thresholds, ordering, streamlines_path>>
              ELSE /\ thresholds' = TakeWhile(init, min_threshold, 0)
                   /\ ordering' = arange(NbStreamlines)
                   /\ streamlines_path' =
                        EmptyPath(NbStreamlines, Len(thresholds'), nb_samplings_max)
                   /\ pc' = "trial"
                   /\ error' = error
    /\ nb_clusterings' = 0
    /\ path_lengths_per_streamline' = Scalar0
    /\ i' = 0
    /\ UNCHANGED <<entry, streamlines, min_threshold, nb_samplings_max,
                   sampling_seed, threshold, call, rng, box_min, box_max, j,
                   cluster_orderings, summary, first, outliers, inliers>>
    /\ UNCHANGED loopVars

\* Lines 169-172: the head of a trial.
Shuffle ==
    /\ pc = "trial"
    /\ i < nb_samplings_max
    /\ LET sh == shuffle(ordering, rng)
       IN  /\ ordering' = sh[1]
           /\ rng' = sh[2]
           /\ cluster_orderings' = <<sh[1]>>
    /\ j' = 0
    /\ pc' = "level"
    /\ UNCHANGED <<entry, streamlines, min_threshold, nb_samplings_max,
                   sampling_seed, threshold, call, box_min, box_max,
                   initial_threshold, thresholds, nb_clusterings,
                   path_lengths_per_streamline, streamlines_path, i,
                   summary, error, first, outliers, inliers>>
    /\ UNCHANGED loopVars

\* Lines 173-188: one level of the trial.
ClusterLevel ==
    /\ pc = "level"
    /\ j < Len(thresholds)
    /\ LET acc == ProcessOrderings(cluster_orderings,
                      [path |-> streamlines_path, id |-> 0, next |-> <<>>],
                      thresholds[j + 1], j, i)
       IN  /\ streamlines_path' = acc.path
           /\ cluster_orderings' = acc.next
    /\ nb_clusterings' = nb_clusterings + Len(cluster_orderings)
    /\ j' = j + 1
    /\ UNCHANGED <<entry, streamlines, min_threshold, nb_samplings_max,
                   sampling_seed, threshold, pc, call, rng, box_min, box_max,
                   initial_threshold, thresholds, ordering,
                   path_lengths_per_streamline, i,
                   summary, error, first, outliers, inliers>>
    /\ UNCHANGED loopVars

\* Lines 190-194: the end of a trial.
EndTrial ==
    /\ pc = "level"
    /\ j = Len(thresholds)
    /\ IF i <= 1
       THEN UNCHANGED path_lengths_per_streamline
       ELSE path_lengths_per_streamline' = PathLengths(streamlines_path, i)
    /\ i' = i + 1
    /\ pc' = "trial"
    /\ UNCHANGED <<entry, streamlines, min_threshold, nb_samplings_max,
                   sampling_seed, threshold, call, rng, box_min, box_max,
                   initial_threshold, thresholds, ordering, nb_clusterings,
                   streamlines_path, j, cluster_orderings,
                   summary, error, first, outliers, inliers>>
    /\ UNCHANGED loopVars

\* Lines 196-198.  np.mean(0, axis=1) raises AxisError: the int 0 has no axis 1.
Summary ==
    /\ pc = "trial"
    /\ i = nb_samplings_max
    /\ IF path_lengths_per_streamline.ndim = 0
       THEN /\ error' = "AxisError"
            /\ pc' = "raised"
            /\ UNCHANGED summary
       ELSE /\ summary' = MeanOverMax(path_lengths_per_streamline.data)
            /\ pc' = "returned"
            /\ error' = error
    /\ UNCHANGED <<entry, streamlines, min_threshold, nb_samplings_max,
                   sampling_seed, threshold, call, rng, box_min, box_max,
                   initial_threshold, thresholds, ordering, nb_clusterings,
                   path_lengths_per_streamline, streamlines_path, i, j,
                   cluster_orderings, first, outliers, inliers>>
    /\ UNCHANGED loopVars

\* remove_outliers, lines 216-222, once the scorer has returned: the two
\* Cluster views are the two index sequences over the same bundle.
PruneViews ==
    /\ entry = "remove_outliers"
    /\ pc = "returned"
    /\ LET pr == prune(streamlines, threshold, summary)
       IN  /\ outliers' = pr[1]
           /\ inliers' = pr[2]
    /\ pc' = "done"
    /\ UNCHANGED <<entry, streamlines, min_threshold, nb_samplings_max,
                   sampling_seed, threshold, call, rng, box_min, box_max,
                   initial_threshold, thresholds, ordering, nb_clusterings,
                   path_lengths_per_streamline, streamlines_path, i, j,
                   cluster_orderings, summary, error, first>>
    /\ UNCHANGED loopVars

\* The scorer is called a second time with the same arguments.
Reinvoke ==
    /\ entry = "score"
    /\ call = 1
    /\ pc \in {"returned", "raised"}
    /\ first' = [pc |-> pc, error |-> error, summary |-> summary,
                 path |-> streamlines_path]
    /\ call' = 2
    /\ pc' = "start"
    /\ box_min' = <<0, 0, 0>>
    /\ box_max' = <<0, 0, 0>>
    /\ initial_threshold' = <<0, 1>>
    /\ thresholds' = <<>>
    /\ ordering' = <<>>
    /\ nb_clusterings' = 0
    /\ path_lengths_per_streamline' = Scalar0
    /\ streamlines_path' = <<>>
    /\ i' = 0
    /\ j' = 0
    /\ cluster_orderings' = <<>>
    /\ summary' = <<>>
    /\ error' = ""
    /\ UNCHANGED <<entry, streamlines, min_threshold, nb_samplings_max,
                   sampling_seed, threshold, rng, outliers, inliers>>
    /\ UNCHANGED loopVars

NextScorer ==
    \/ Validate
    \/ BoundingBox
    \/ Schedule
    \/ Shuffle
    \/ ClusterLevel
    \/ EndTrial
    \/ Summary
    \/ PruneViews
    \/ Reinvoke

SpecScorer == InitScorer /\ [][NextScorer]_vars

----------------------------------------------------------------------------
\* Claims about the scorer, prune and remove_outliers.

\* The call has ended.
Returned == pc \in {"returned", "done"}
Ended == pc \in {"returned", "raised", "done"}
\* streamlines_path is allocated (line 167 was reached).
Allocated == pc \in {"trial", "level", "returned", "done"}
                 \/ (pc = "raised" /\ error = "AxisError")

Indices == 0..(NbStreamlines - 1)
Range(seq) == {seq[k] : k \in 1..Len(seq)}
One == <<1, 1>>
Zero == <<0, 1>>

\* Number of levels at which streamline s has a cluster identifier in trial t.
LevelsReached(s, t) ==
    Cardinality({lev \in DOMAIN streamlines_path[s] :
                    streamlines_path[s][lev][t] # -1})

\* The largest LevelsReached over all streamlines and the trials 0..last.
MaxLevelsReached(last) ==
    SetMax({LevelsReached(s, t) : s \in Indices, t \in 0..last})

\* C1: the outlier and inlier index sets that remove_outliers gets from prune
\* are disjoint, their union is 0..N-1, and an index is an outlier when its
\* score is strictly below the threshold and an inlier otherwise.
C1_PartitionOfIndices ==
    pc = "done" =>
        /\ Range(outliers) \cap Range(inliers) = {}
        /\ Range(outliers) \cup Range(inliers) = Indices
        /\ \A s \in Indices :
              IF RatLt(summary[s], threshold)
              THEN s \in Range(outliers)
              ELSE s \in Range(inliers)

\* C2: with nb_samplings_max >= 2 (2 included) and a non-empty schedule the
\* scorer returns, and returns one score in [0, 1] per streamline.
C2_ScoresForTwoOrMoreTrials ==
    (Ended /\ nb_samplings_max >= 2 /\ Len(thresholds) >= 1) =>
        /\ Returned
        /\ DOMAIN summary = Indices
        /\ \A s \in Indices :
              RatGeq(summary[s], Zero) /\ RatLeq(summary[s], One)

\* C3, as stated: whenever a streamline has a cluster identifier at some
\* level, the largest returned score is 1.0.
C3_MaxScoreIsOne ==
    (Returned /\ Len(thresholds) >= 1 /\ NbStreamlines >= 1) =>
        /\ \A s \in Indices : RatLeq(summary[s], One)
        /\ \E s \in Indices : RatEq(summary[s], One)

\* C3, amended: no returned score exceeds 1.0, and a score of 1.0 is attained
\* exactly when some streamline reaches, in every trial 0..M-2 (the trials
\* the statistic covers), the largest number of levels reached by any
\* streamline in those trials.
C3_MaxScoreIsOneIffUniformlyDeepest ==
    (Returned /\ Len(thresholds) >= 1 /\ NbStreamlines >= 1) =>
        /\ \A s \in Indices : RatLeq(summary[s], One)
        /\ (\E s \in Indices : RatEq(summary[s], One))
             <=> (\E s \in Indices : \A t \in 0..(nb_samplings_max - 2) :
                     LevelsReached(s, t) = MaxLevelsReached(nb_samplings_max - 2))

\* A run that returned scores all below 1.0.
C3_Witness ==
    /\ Returned
    /\ Len(thresholds) >= 1
    /\ NbStreamlines >= 1
    /\ \A s \in Indices : RatLt(summary[s], One)

\* C4: with an empty threshold schedule the scorer never returns a result.
C4_EmptyScheduleIsAnError ==
    (Allocated /\ thresholds = <<>>) => ~Returned

\* C5: get_streamlines_bounding_box fails with EmptyInputError on an empty
\* bundle, and the box it returns has min <= max on every axis.
C5_EmptyBundleRejected ==
    pc = "schedule" =>
        IF NbStreamlines = 0
        THEN error = "EmptyInputError"
        ELSE \A c \in 1..3 : box_min[c] <= box_max[c]

\* C8: the second invocation, with the same bundle, min_threshold, number of
\* trials and seed, ends as the first did, with the same cluster-assignment
\* array and the same scores.
C8_Determinism ==
    (call = 2 /\ Ended) =>
        /\ first.pc = pc
        /\ first.error = error
        /\ first.path = streamlines_path
        /\ first.summary = summary

\* A second invocation that returned scores for the order-sensitive bundle,
\* after trials whose shuffles gave different clusterings.
C8_Witness ==
    /\ call = 2
    /\ pc = "returned"
    /\ \E s \in Indices : \E t1, t2 \in 0..(nb_samplings_max - 1) :
          LevelsReached(s, t1) # LevelsReached(s, t2)

\* C9: the score of s is the mean over all M trials of the number of levels
\* s reached, divided by the largest such number over all streamlines and all
\* M trials.
C9_MeanOverAllTrials ==
    (Returned /\ Len(thresholds) >= 1) =>
        \A s \in Indices :
            RatEq(summary[s],
                  <<SumSeq([t \in 1..nb_samplings_max |-> LevelsReached(s, t - 1)]),
                    nb_samplings_max * MaxLevelsReached(nb_samplings_max - 1)>>)

\* Level lev of trial t has been processed.
Processed(lev, t) == t < i \/ (t = i /\ pc = "level" /\ lev < j)

\* The streamlines that share s's cluster at level lev of trial t.
ClusterOf(s, lev, t) ==
    {s2 \in Indices : streamlines_path[s2][lev][t] = streamlines_path[s][lev][t]}

\* C10: after every level of every trial, every streamline has an identifier
\* at level 0; it has one at level lev >= 1 exactly when it has one at level
\* lev - 1 and its cluster there has more than 10 members; and the orderings
\* kept for the next level are exactly those clusters, told apart by their
\* identifiers.
C10_Hierarchy ==
    Allocated =>
        /\ \A t \in 0..(nb_samplings_max - 1) : \A lev \in 0..(Len(thresholds) - 1) :
              Processed(lev, t) => \A s \in Indices :
                 IF lev = 0
                 THEN streamlines_path[s][lev][t] # -1
                 ELSE streamlines_path[s][lev][t] # -1
                        <=> /\ streamlines_path[s][lev - 1][t] # -1
                            /\ Cardinality(ClusterOf(s, lev - 1, t)) > ClusterSizeLimit
        /\ (pc = "level" /\ j >= 1) =>
              {Range(o) : o \in Range(cluster_orderings)}
                 = {ClusterOf(s, j - 1, i) : s \in
                       {s2 \in Indices :
                           /\ streamlines_path[s2][j - 1][i] # -1
                           /\ Cardinality(ClusterOf(s2, j - 1, i)) > ClusterSizeLimit}}

\* Two levels of a trial are done; one streamline went on to the second level
\* and another did not.
C10_Witness ==
    /\ pc = "level"
    /\ j >= 2
    /\ \E s1, s2 \in Indices :
          /\ streamlines_path[s1][1][i] # -1
          /\ streamlines_path[s2][1][i] = -1

----------------------------------------------------------------------------
\* remove_loops_and_sharp_turns
\*
\* A streamline given to the filter is [pos, winding, curvature]: a curve
\* with winding angle tm.winding and mean curvature tm.mean_curvature, placed
\* at offset pos.  Streamlines at the same offset are the same curve;
\* streamlines at different offsets are 100 or more apart, farther than
\* every threshold of qbx_and_merge (40, 30, 20, qb_threshold), so that
\* qbx_and_merge groups exactly the equal streamlines and each centroid is
\* the curve of its cluster.

LoopShapes ==
    { [pos |-> 0,   winding |-> 90,  curvature |-> 1],
      [pos |-> 100, winding |-> 200, curvature |-> 3],
      [pos |-> 200, winding |-> 360, curvature |-> 2],
      [pos |-> 300, winding |-> 120, curvature |-> 5] }

MaxAngles == {180, 360}

LoopBundles == UNION {[1..n -> LoopShapes] : n \in 0..MaxLoopBundle}

\* tm.winding(s) >= max_angle
IsLoop(s) == s.winding >= max_angle

\* Mutant of SecondPass: the QuickBundles pass is made whatever use_qb is.
SecondPassAlways == TRUE

\* if use_qb:
SecondPass == use_qb

\* Lines 41-47.  Returns <<streamlines_clean, loops>>.
RECURSIVE WindingPass(_, _, _)
WindingPass(sl, clean, lp) ==
    IF sl = <<>> THEN <<clean, lp>>
    ELSE IF IsLoop(Head(sl))
         THEN WindingPass(Tail(sl), clean, Append(lp, Head(sl)))
         ELSE WindingPass(Tail(sl), Append(clean, Head(sl)), lp)

\* qbx_and_merge(streamlines, [40, 30, 20, qb_threshold], rng): the clusters,
\* each [indices, centroid], in the order their first member appears.
RECURSIVE MergeFrom(_, _, _)
MergeFrom(sl, k, clusters) ==
    IF k > Len(sl) THEN clusters
    ELSE LET hit == {c \in 1..Len(clusters) : clusters[c].centroid.pos = sl[k].pos}
         IN  MergeFrom(sl, k + 1,
                 IF hit = {}
                 THEN Append(clusters, [indices |-> <<k>>, centroid |-> sl[k]])
                 ELSE LET c == CHOOSE c \in hit : TRUE
                      IN  [clusters EXCEPT ![c].indices = Append(@, k)])

qbx_and_merge(sl) == MergeFrom(sl, 1, <<>>)

\* Mutant of AboveMean: >= instead of >
AtOrAboveMean(c, curvature) == c * Len(curvature) >= SumSeq(curvature)

\* tm.mean_curvature(clusters.centroids[i]) > mean_curvature, where
\* mean_curvature = sum(curvature) / len(curvature)
AboveMean(c, curvature) == c * Len(curvature) > SumSeq(curvature)

\* Lines 63-69.  acc = <<streamlines_clean, loops>>.
RECURSIVE CurvaturePass(_, _, _, _, _)
CurvaturePass(sl, clusters, k, curvature, acc) ==
    IF k > Len(clusters) THEN acc
    ELSE LET members == [p \in 1..Len(clusters[k].indices) |->
                            sl[clusters[k].indices[p]]]
         IN  CurvaturePass(sl, clusters, k + 1, curvature,
                 IF AboveMean(clusters[k].centroid.curvature, curvature)
                 THEN <<acc[1], acc[2] \o members>>
                 ELSE <<acc[1] \o members, acc[2]>>)

ScorerIdle ==
    /\ entry = "idle"
    /\ streamlines = <<>>
    /\ min_threshold = <<0, 1>>
    /\ nb_samplings_max = 0
    /\ sampling_seed = 0
    /\ threshold = <<0, 1>>
    /\ pc = "idle"
    /\ call = 0
    /\ first = NoResult
    /\ FreshLocals

InitLoops ==
    /\ lf_streamlines \in LoopBundles
    /\ max_angle \in MaxAngles
    /\ use_qb \in BOOLEAN
    /\ qb_threshold = 15
    /\ qb_seed = 0
    /\ lf_pc = "start"
    /\ lf_run = 1
    /\ streamlines_clean = <<>>
    /\ loops = <<>>
    /\ lf_first = <<>>
    /\ ScorerIdle

\* Lines 41-47.
LfWinding ==
    /\ lf_pc = "start"
    /\ LET r == WindingPass(lf_streamlines, <<>>, <<>>)
       IN  /\ streamlines_clean' = r[1]
           /\ loops' = r[2]
    /\ lf_pc' = "qb"
    /\ UNCHANGED <<lf_streamlines, max_angle, use_qb, qb_threshold, qb_seed,
                   lf_run, lf_first>>
    /\ UNCHANGED scorerVars

\* Lines 49-75.
LfQuickBundles ==
    /\ lf_pc = "qb"
    /\ IF SecondPass /\ Len(streamlines_clean) > 1
       THEN LET clusters == qbx_and_merge(streamlines_clean)
                curvature == [k \in 1..Len(clusters) |->
                                 clusters[k].centroid.curvature]
                r == CurvaturePass(streamlines_clean, clusters, 1, curvature,
                                   <<<<>>, loops>>)
            IN  /\ streamlines_clean' = r[1]
                /\ loops' = r[2]
       ELSE UNCHANGED <<streamlines_clean, loops>>
    /\ lf_pc' = "returned"
    /\ UNCHANGED <<lf_streamlines, max_angle, use_qb, qb_threshold, qb_seed,
                   lf_run, lf_first>>
    /\ UNCHANGED scorerVars

\* The filter is run again, with the same parameters, on its clean list.
LfRerun ==
    /\ lf_pc = "returned"
    /\ lf_run = 1
    /\ lf_first' = [input |-> lf_streamlines, clean |-> streamlines_clean,
                    loops |-> loops]
    /\ lf_streamlines' = streamlines_clean
    /\ streamlines_clean' = <<>>
    /\ loops' = <<>>
    /\ lf_run' = 2
    /\ lf_pc' = "start"
    /\ UNCHANGED <<max_angle, use_qb, qb_threshold, qb_seed>>
    /\ UNCHANGED scorerVars

NextLoops ==
    \/ LfWinding
    \/ LfQuickBundles
    \/ LfRerun

SpecLoops == InitLoops /\ [][NextLoops]_vars

----------------------------------------------------------------------------
\* Claims about remove_loops_and_sharp_turns.

Occurrences(seq, x) == Cardinality({k \in 1..Len(seq) : seq[k] = x})

\* The two lists hold the same streamlines, each as many times.
SameBag(a, b) ==
    /\ Len(a) = Len(b)
    /\ \A x \in Range(a) \cup Range(b) : Occurrences(a, x) = Occurrences(b, x)

\* Every streamline of the input has a winding angle below max_angle.
AllBelowMaxAngle == \A k \in 1..Len(lf_streamlines) :
                        lf_streamlines[k].winding < max_angle

\* C6, as stated: a bundle whose winding angles are all below max_angle comes
\* back whole as the clean list, with no loops, whatever use_qb is.
C6_NoLoopsBelowMaxAngle ==
    (lf_pc = "returned" /\ lf_run = 1 /\ AllBelowMaxAngle) =>
        /\ SameBag(streamlines_clean, lf_streamlines)
        /\ loops = <<>>

\* C6, amended: it does so when use_qb is False, and when use_qb is True if
\* the bundle has at most one streamline or qbx_and_merge puts all of it in
\* one cluster.
C6_NoLoopsBelowMaxAngleFirstPass ==
    (/\ lf_pc = "returned"
     /\ lf_run = 1
     /\ AllBelowMaxAngle
     /\ \/ ~use_qb
        \/ Len(lf_streamlines) <= 1
        \/ Len(qbx_and_merge(lf_streamlines)) = 1) =>
        /\ SameBag(streamlines_clean, lf_streamlines)
        /\ loops = <<>>

\* The second pass ran on two or more streamlines in one cluster.
C6_Witness ==
    /\ lf_pc = "returned"
    /\ lf_run = 1
    /\ AllBelowMaxAngle
    /\ use_qb
    /\ Len(lf_streamlines) >= 2
    /\ Len(qbx_and_merge(lf_streamlines)) = 1
    /\ Len(streamlines_clean) = Len(lf_streamlines)

\* C7, as stated: run again on its clean list with the same parameters, the
\* filter returns that list and no loops, whatever the parameters are.
C7_CleanPassIdempotent ==
    (lf_pc = "returned" /\ lf_run = 2) =>
        /\ SameBag(streamlines_clean, lf_first.clean)
        /\ loops = <<>>

\* C7, amended: it does so when use_qb is False, or when the first run's
\* clean list has at most one streamline.
C7_CleanPassIdempotentFirstPass ==
    (/\ lf_pc = "returned"
     /\ lf_run = 2
     /\ (~use_qb \/ Len(lf_first.clean) <= 1)) =>
        /\ streamlines_clean = lf_first.clean
        /\ loops = <<>>

\* A second run without the QuickBundles pass, after a first run that kept
\* two or more streamlines and removed some.
C7_Witness ==
    /\ lf_pc = "returned"
    /\ lf_run = 2
    /\ ~use_qb
    /\ Len(lf_first.clean) >= 2
    /\ lf_first.loops # <<>>
    /\ streamlines_clean = lf_first.clean

====
